---- MODULE Spec2Model ----
(***************************************************************************)
(* Model of the Monte Carlo orchestration core:                            *)
(*   src/Simulations/monte_carlo_simulation.py  (PiEstimation,             *)
(*       MonteCarloAnalyzer.run_sequential / run_parallel)                 *)
(*   src/Simulations/random_simulation.py       (RandomSimulation)         *)
(*                                                                         *)
(* Floating point values are modelled as exact rationals extended with     *)
(* +infinity and NaN.  The thresholds and estimates enumerated below are   *)
(* chosen so that every comparison the code makes has the same outcome in  *)
(* IEEE double arithmetic and in exact arithmetic.                         *)
(***************************************************************************)
EXTENDS Integers, Sequences, FiniteSets, TLC

VARIABLES
    cfg,                  \* the MonteCarloConfig shared by simulation and analyzer
    simKind,              \* "PiEstimation" or "Other" (another MonteCarloSimulation)
    np_seed,              \* process-wide numpy RNG: <<>> unseeded, <<s>> after np.random.seed(s)
    pc,                   \* position of the calling program
    points,               \* len(simulation.points) of the caller's trial object
    results,              \* analyzer.results
    convergence_history,  \* analyzer.convergence_history
    prev_estimate,        \* run_sequential local
    trial_calls,          \* run_trial invocations made by the call in progress
    stop,                 \* how the sequential loop was left: "none", "break"
    tasks,                \* run_parallel: the submitted futures
    writers,              \* per points buffer: the pool processes that wrote it
    entry,                \* analyzer.results when the call in progress began
    last,                 \* outcome of the last finished call
    calls,                \* number of finished run_* calls on the analyzer
    rs,                   \* RandomSimulation: config and outcome of the last call
    tw                    \* two trial instances built from one config

vars == <<cfg, simKind, np_seed, pc, points, results, convergence_history,
          prev_estimate, trial_calls, stop, tasks, writers, entry, last, calls, rs, tw>>

\* the Monte Carlo program's state apart from the numpy generator
mcrest == <<cfg, simKind, pc, points, results, convergence_history,
            prev_estimate, trial_calls, stop, tasks, writers, entry, last, calls>>

mcvars == <<mcrest, np_seed>>

----------------------------------------------------------------------------
(* Bounds of the model *)

MaxIter == 3            \* largest max_iterations of the enumerated grid
MaxProcs == 2           \* largest num_processes of the enumerated grid
MaxCalls == 2           \* run_* calls made on one analyzer
LongRun == 50           \* max_iterations of the unbounded-threshold scenario

----------------------------------------------------------------------------
(* Extended rationals standing for Python / numpy floats *)

Abs(x) == IF x < 0 THEN -x ELSE x

RECURSIVE Gcd(_, _)
Gcd(a, b) == IF b = 0 THEN a ELSE Gcd(b, a % b)

\* the rational n/d (d # 0) in lowest terms with a positive denominator
Rat(n, d) ==
    LET s == IF d < 0 THEN -1 ELSE 1
        g == Gcd(Abs(n), Abs(d))
    IN  [k |-> "fin", n |-> (s * n) \div g, d |-> (s * d) \div g]

Inf == [k |-> "inf", n |-> 0, d |-> 1]
NaN == [k |-> "nan", n |-> 0, d |-> 1]

\* float addition (no -inf arises in the program)
FAdd(a, b) ==
    IF a.k = "nan" \/ b.k = "nan" THEN NaN
    ELSE IF a.k = "inf" \/ b.k = "inf" THEN Inf
    ELSE Rat(a.n * b.d + b.n * a.d, a.d * b.d)

\* abs(a - b)
AbsDiff(a, b) ==
    IF a.k = "nan" \/ b.k = "nan" THEN NaN
    ELSE IF a.k = "inf" /\ b.k = "inf" THEN NaN
    ELSE IF a.k = "inf" \/ b.k = "inf" THEN Inf
    ELSE Rat(Abs(a.n * b.d - b.n * a.d), a.d * b.d)

\* a < b on floats: false when either side is NaN, inf < inf is false
FLt(a, b) ==
    IF a.k = "nan" \/ b.k = "nan" THEN FALSE
    ELSE IF a.k = "inf" THEN FALSE
    ELSE IF b.k = "inf" THEN TRUE
    ELSE a.n * b.d < b.n * a.d

RECURSIVE FSum(_)
FSum(s) == IF s = <<>> THEN Rat(0, 1) ELSE FAdd(FSum(SubSeq(s, 1, Len(s) - 1)), s[Len(s)])

\* np.mean(list): NaN (with a warning, no exception) on the empty list
Mean(s) ==
    IF s = <<>> THEN NaN
    ELSE LET t == FSum(s)
         IN  IF t.k = "fin" THEN Rat(t.n, t.d * Len(s)) ELSE t

----------------------------------------------------------------------------
(* Configuration: a plain dataclass, no validation on construction *)

DefaultThresholdDen == 1000000     \* convergence_threshold default 1e-6

\* Optional[int] fields are <<>> (None) or <<v>>
MonteCarloConfig(ns, np, sd, bs, un, sp, thr, mi) ==
    [num_samples |-> ns, num_processes |-> np, seed |-> sd, batch_size |-> bs,
     use_numpy |-> un, store_points |-> sp, convergence_threshold |-> thr,
     max_iterations |-> mi]

\* the spec's validity conditions on a configuration (the code checks none of them)
ValidConfig(c) ==
    /\ c.num_samples > 0
    /\ c.num_processes > 0
    /\ (c.batch_size # <<>> => c.batch_size[1] > 0)
    /\ FLt(Rat(0, 1), c.convergence_threshold)
    /\ c.max_iterations > 0

Base == MonteCarloConfig(1, 2, <<>>, <<>>, TRUE, FALSE, Rat(1, 1), 2)

Thresholds == {Rat(0, 1), Rat(1, DefaultThresholdDen), Rat(1, 1), Rat(3, 1), Inf}

PiScenarios ==
       { [Base EXCEPT !.max_iterations = mi, !.convergence_threshold = t] :
            mi \in 0..MaxIter, t \in Thresholds }
  \cup { [Base EXCEPT !.num_processes = n, !.store_points = sp] :
            n \in 1..MaxProcs, sp \in BOOLEAN }
  \cup { [Base EXCEPT !.num_processes = n, !.batch_size = b] :
            n \in {-1, 0}, b \in {<<>>, <<0>>, <<2>>} }
  \cup { [Base EXCEPT !.batch_size = b] : b \in {<<-1>>, <<0>>, <<2>>} }
  \cup { [Base EXCEPT !.num_samples = n, !.use_numpy = un] :
            n \in {-1, 0, 1, 2}, un \in BOOLEAN }
  \cup { [Base EXCEPT !.max_iterations = -1],
         [Base EXCEPT !.convergence_threshold = Rat(-1, 1)],
         [Base EXCEPT !.seed = <<42>>],
         [Base EXCEPT !.max_iterations = LongRun, !.convergence_threshold = Inf] }

OtherScenarios ==
       { [Base EXCEPT !.max_iterations = mi, !.convergence_threshold = t] :
            mi \in 1..MaxIter, t \in {Rat(1, 1), Inf} }
  \cup { [Base EXCEPT !.num_processes = n] : n \in 1..MaxProcs }
  \cup { [Base EXCEPT !.max_iterations = LongRun, !.convergence_threshold = Inf] }

----------------------------------------------------------------------------
(* Trials *)

Ok(e, p) == [ok |-> TRUE, est |-> e, err |-> "", pts |-> p]
Fail(e) == [ok |-> FALSE, est |-> NaN, err |-> e, pts |-> 0]

\* PiEstimation._run_numpy_trial: the global numpy RNG decides inside_circle
NumpyTrial(c) ==
    IF c.num_samples < 0 THEN {Fail("ValueError")}          \* negative array size
    ELSE IF c.num_samples = 0 THEN {Ok(NaN, 0)}             \* 0 / 0 on numpy scalars
    ELSE { Ok(Rat(4 * inside, c.num_samples),
              IF c.store_points THEN c.num_samples ELSE 0) :
             inside \in 0..c.num_samples }

\* PiEstimation._run_python_trial: the module never imports `random`
PythonTrial(c) ==
    IF c.num_samples > 0 THEN {Fail("NameError")}           \* random.uniform
    ELSE IF c.num_samples = 0 THEN {Fail("ZeroDivisionError")}
    ELSE {Ok(Rat(0, 1), 0)}                                 \* (0 / n) * 4, empty loop

\* another implementation of the abstract MonteCarloSimulation.run_trial
OtherTrial == {Ok(Rat(0, 1), 0), Ok(Rat(3, 1), 0), Fail("TrialError")}

run_trial(kind, c) ==
    IF kind = "PiEstimation"
    THEN (IF c.use_numpy THEN NumpyTrial(c) ELSE PythonTrial(c))
    ELSE OtherTrial

----------------------------------------------------------------------------
(* Reports and call outcomes *)

NoReport == [estimate |-> NaN, num_iterations |-> -1]

\* MonteCarloAnalyzer._analyze_results: the fields the claims read.  The error
\* and deviation fields are float functions of the same buffer and never raise.
AnalyzeResults(res) == [estimate |-> Mean(res), num_iterations |-> Len(res)]

NoCall == [call |-> "none", outcome |-> "none", err |-> "", report |-> NoReport,
           trials |-> 0, fresh |-> FALSE, stop |-> "none", kept |-> TRUE]

\* kept: the call left analyzer.results as it found it
Returned(call, rep, n, fr, st, kp) ==
    [call |-> call, outcome |-> "report", err |-> "", report |-> rep,
     trials |-> n, fresh |-> fr, stop |-> st, kept |-> kp]

Raised(call, e, n, fr, kp) ==
    [call |-> call, outcome |-> "raised", err |-> e, report |-> NoReport,
     trials |-> n, fresh |-> fr, stop |-> "none", kept |-> kp]

----------------------------------------------------------------------------
(* RandomSimulation state is inert in the Monte Carlo specification *)

\* py_seed: the interpreter's `random` generator, <<s>> after random.seed(s);
\* np_draws: values visualize_results drew from the numpy generator
NoRandomRun == [trials |-> 0, num_processes |-> 1, batch_size |-> <<>>,
                parallel |-> FALSE, seed |-> <<>>, py_seed |-> <<>>,
                phase |-> "none", via |-> "none", err |-> "", batches |-> <<>>,
                count |-> 0, pret |-> FALSE, np_draws |-> 0]

\* the two-instance state is inert outside its own specification
NoInstance == [status |-> "none", results |-> <<>>, history |-> <<>>, prev |-> Inf,
               stop |-> "none", n |-> 0, report |-> NoReport]

NoTwoTrials == [cfg |-> Base, inst |-> [x \in {1, 2} |-> NoInstance]]

----------------------------------------------------------------------------
(* Construction *)

Init ==
    /\ \E k \in {"PiEstimation", "Other"} :
         /\ simKind = k
         /\ cfg \in (IF k = "PiEstimation" THEN PiScenarios ELSE OtherScenarios)
    /\ np_seed = <<>>
    /\ pc = "new"
    /\ points = 0
    /\ results = <<>>
    /\ convergence_history = <<>>
    /\ prev_estimate = Inf
    /\ trial_calls = 0
    /\ stop = "none"
    /\ tasks = <<>>
    /\ writers = [b \in {0} |-> {}]
    /\ entry = <<>>
    /\ last = NoCall
    /\ calls = 0
    /\ rs = NoRandomRun
    /\ tw = NoTwoTrials

\* PiEstimation.__init__ : seeds the global numpy RNG, then names the module
\* `random`, which was never imported
ConstructSimulation ==
    /\ pc = "new"
    /\ IF simKind = "PiEstimation" /\ cfg.seed # <<>>
       THEN /\ np_seed' = cfg.seed
            /\ pc' = "dead"
            /\ last' = Raised("PiEstimation", "NameError", 0, TRUE, TRUE)
       ELSE /\ pc' = "sim"
            /\ UNCHANGED <<np_seed, last>>
    /\ points' = 0
    /\ UNCHANGED <<cfg, simKind, results, convergence_history, prev_estimate,
                   trial_calls, stop, tasks, writers, entry, calls, rs, tw>>

\* MonteCarloAnalyzer.__init__
ConstructAnalyzer ==
    /\ pc = "sim"
    /\ pc' = "idle"
    /\ results' = <<>>
    /\ convergence_history' = <<>>
    /\ UNCHANGED <<cfg, simKind, np_seed, points, prev_estimate, trial_calls, stop,
                   tasks, writers, entry, last, calls, rs, tw>>

----------------------------------------------------------------------------
(* run_sequential *)

\* variant: the previous running mean starts at 0 instead of infinity
InitialPrevZero == Rat(0, 1)

\* prev_estimate = float('inf')
InitialPrev == Inf

\* variant: the convergence test accepts a difference equal to the threshold
ConvergedOrEqual(estimate, prev, c) ==
    ~FLt(c.convergence_threshold, AbsDiff(estimate, prev))
    /\ AbsDiff(estimate, prev).k # "nan" /\ c.convergence_threshold.k # "nan"

\* abs(estimate - prev_estimate) < self.config.convergence_threshold
Converged(estimate, prev, c) == FLt(AbsDiff(estimate, prev), c.convergence_threshold)

\* for i in range(max_iterations): another iteration is due
LoopContinues(n, st, c) == st = "none" /\ n < c.max_iterations

\* the loop body after run_trial returned `est`: append, running mean, history,
\* convergence test (break) or prev_estimate = estimate
LoopBody(res, hist, prev, est, c) ==
    LET r == Append(res, est)
        estimate == Mean(r)
        brk == Converged(estimate, prev, c)
    IN  [results |-> r,
         history |-> Append(hist, estimate),
         prev |-> IF brk THEN prev ELSE estimate,
         stop |-> IF brk THEN "break" ELSE "none"]

SeqStart ==
    /\ pc = "idle"
    /\ calls < MaxCalls
    /\ pc' = "seq"
    /\ prev_estimate' = InitialPrev
    /\ trial_calls' = 0
    /\ stop' = "none"
    /\ entry' = results
    /\ tasks' = <<>>
    /\ UNCHANGED <<cfg, simKind, np_seed, points, results, convergence_history,
                   writers, last, calls, rs, tw>>

\* one pass through the loop body
SeqIter ==
    /\ pc = "seq"
    /\ LoopContinues(trial_calls, stop, cfg)
    /\ \E out \in run_trial(simKind, cfg) :
         /\ trial_calls' = trial_calls + 1
         /\ points' = points + out.pts
         /\ IF out.ok
            THEN LET b == LoopBody(results, convergence_history, prev_estimate,
                                   out.est, cfg)
                 IN  /\ results' = b.results
                     /\ convergence_history' = b.history
                     /\ prev_estimate' = b.prev
                     /\ stop' = b.stop
                     /\ UNCHANGED <<pc, last, calls>>
            ELSE /\ pc' = "idle"
                 /\ last' = Raised("run_sequential", out.err, trial_calls + 1,
                                   calls = 0, results = entry)
                 /\ calls' = calls + 1
                 /\ UNCHANGED <<results, convergence_history, prev_estimate, stop>>
    /\ UNCHANGED <<cfg, simKind, np_seed, tasks, writers, entry, rs, tw>>

\* loop left by break or by exhausting the range; runtime; _analyze_results
SeqFinish ==
    /\ pc = "seq"
    /\ ~LoopContinues(trial_calls, stop, cfg)
    /\ pc' = "idle"
    /\ last' = Returned("run_sequential", AnalyzeResults(results), trial_calls,
                        calls = 0, IF stop = "break" THEN "break" ELSE "exhausted",
                        results = entry)
    /\ calls' = calls + 1
    /\ UNCHANGED <<cfg, simKind, np_seed, points, results, convergence_history,
                   prev_estimate, trial_calls, stop, tasks, writers, entry, rs, tw>>

----------------------------------------------------------------------------
(* run_parallel *)

Pending == [st |-> "pending", proc |-> 0, out |-> Fail("")]

\* batch_size = config.batch_size or (num_samples // num_processes)
BatchSizeRaises(c) ==
    (c.batch_size = <<>> \/ c.batch_size = <<0>>) /\ c.num_processes = 0

\* ProcessPoolExecutor(max_workers=n) rejects n <= 0
PoolRaises(c) == c.num_processes <= 0

\* variant: one future fewer than processes (never fewer than one)
TaskCountShort(c) == IF c.num_processes > 1 THEN c.num_processes - 1 ELSE 1

\* for _ in range(self.config.num_processes): one future per process
TaskCount(c) == c.num_processes

\* variant: workers are threads that call run_trial on the caller's object
WorkerBufferShared(i) == 0

\* the trial object a worker mutates: submit() pickles the bound method, so
\* task i works on its own copy (buffer i); buffer 0 is the caller's object
WorkerBuffer(i) == i

\* variant: failed futures are skipped instead of raised
FirstFailureIgnored(ts) == 0

\* the with-block and future.result() return once every future is done
AllDone(ts) == \A i \in 1..Len(ts) : ts[i].st = "done"

\* results = [future.result()[0] for future in futures]
Collect(ts) == [i \in 1..Len(ts) |-> ts[i].out.est]

FirstFailure(ts) ==
    LET bad == {i \in 1..Len(ts) : ~ts[i].out.ok}
    IN  IF bad = {} THEN 0 ELSE CHOOSE i \in bad : \A j \in bad : i <= j

ParStart ==
    /\ pc = "idle"
    /\ calls < MaxCalls
    /\ entry' = results
    /\ trial_calls' = 0
    /\ IF BatchSizeRaises(cfg) \/ PoolRaises(cfg)
       THEN /\ last' = Raised("run_parallel",
                              IF BatchSizeRaises(cfg) THEN "ZeroDivisionError"
                              ELSE "ValueError", 0, calls = 0, TRUE)
            /\ calls' = calls + 1
            /\ tasks' = <<>>
            /\ UNCHANGED <<pc, writers, tw>>
       ELSE /\ pc' = "par"
            /\ tasks' = [i \in 1..TaskCount(cfg) |-> Pending]
            /\ writers' = [b \in 0..TaskCount(cfg) |-> {}]
            /\ UNCHANGED <<last, calls>>
    /\ UNCHANGED <<cfg, simKind, np_seed, points, results, convergence_history,
                   prev_estimate, stop, rs, tw>>

\* an idle pool process takes the next work item off the call queue
WorkerStart(p, i) ==
    /\ pc = "par"
    /\ tasks[i].st = "pending"
    /\ \A j \in 1..(i - 1) : tasks[j].st # "pending"
    /\ \A j \in 1..Len(tasks) : ~(tasks[j].st = "running" /\ tasks[j].proc = p)
    /\ tasks' = [tasks EXCEPT ![i] = [st |-> "running", proc |-> p, out |-> Fail("")]]
    /\ trial_calls' = trial_calls + 1
    /\ UNCHANGED <<cfg, simKind, np_seed, pc, points, results, convergence_history,
                   prev_estimate, stop, writers, entry, last, calls, rs, tw>>

\* the process runs run_trial on its copy and the future completes
WorkerFinish(i) ==
    /\ pc = "par"
    /\ tasks[i].st = "running"
    /\ \E out \in run_trial(simKind, cfg) :
         /\ tasks' = [tasks EXCEPT ![i] = [st |-> "done", proc |-> 0, out |-> out]]
         /\ writers' = IF out.pts > 0
                       THEN [writers EXCEPT ![WorkerBuffer(i)] = @ \cup {tasks[i].proc}]
                       ELSE writers
         /\ points' = IF WorkerBuffer(i) = 0 THEN points + out.pts ELSE points
    /\ UNCHANGED <<cfg, simKind, np_seed, pc, results, convergence_history,
                   prev_estimate, trial_calls, stop, entry, last, calls, rs, tw>>

\* the join: first failure in submission order is raised, else results assigned
ParJoin ==
    /\ pc = "par"
    /\ AllDone(tasks)
    /\ pc' = "idle"
    /\ calls' = calls + 1
    /\ writers' = [b \in {0} |-> {}]
    /\ LET f == FirstFailure(tasks)
       IN  IF f # 0
           THEN /\ last' = Raised("run_parallel", tasks[f].out.err, trial_calls,
                                  calls = 0, results = entry)
                /\ UNCHANGED results
           ELSE /\ results' = Collect(tasks)
                /\ last' = Returned("run_parallel", AnalyzeResults(Collect(tasks)),
                                    trial_calls, calls = 0, "none",
                                    Collect(tasks) = entry)
    /\ UNCHANGED <<cfg, simKind, np_seed, points, convergence_history, prev_estimate,
                   trial_calls, stop, tasks, entry, rs, tw>>

Next ==
    \/ ConstructSimulation
    \/ ConstructAnalyzer
    \/ SeqStart
    \/ SeqIter
    \/ SeqFinish
    \/ ParStart
    \/ \E p \in 1..MaxProcs, i \in 1..MaxProcs :
         p <= cfg.num_processes /\ i <= Len(tasks) /\ WorkerStart(p, i)
    \/ \E i \in 1..MaxProcs : i <= Len(tasks) /\ WorkerFinish(i)
    \/ ParJoin

Spec == Init /\ [][Next]_vars

----------------------------------------------------------------------------
(* RandomSimulation (random_simulation.py).  Sample values are random draws   *)
(* in [min_value, max_value]; the model keeps the length of every sample list. *)

MaxTrials == 6               \* trials of the directly called small runs
MaxBatch == 3                \* batch sizes of the small runs
ParallelThreshold == 10000   \* run(): parallel only when trials >= 10000

\* Python's a // b for b # 0 (floor division)
PyFloorDiv(a, b) == IF b > 0 THEN a \div b ELSE (-a) \div (-b)

\* SimulationConfig; min_value and max_value bound the sample values only
SimulationConfig(tr, sd, par, np, bs) ==
    [trials |-> tr, seed |-> sd, parallel |-> par, num_processes |-> np,
     batch_size |-> bs]

Seeds == {<<>>, <<42>>}

SmallConfigs ==
    { SimulationConfig(tr, sd, par, np, bs) :
        tr \in 0..MaxTrials, sd \in Seeds, par \in BOOLEAN, np \in 0..MaxBatch,
        bs \in {<<>>, <<-1>>} \cup { <<b>> : b \in 0..MaxBatch } }

LargeConfigs ==
    { SimulationConfig(tr, sd, par, np, bs) :
        tr \in (ParallelThreshold - 1)..(ParallelThreshold + 2), sd \in Seeds,
        par \in BOOLEAN, np \in 1..MaxBatch,
        bs \in {<<>>} \cup { <<ParallelThreshold \div d + e>> : d \in 1..MaxBatch, e \in 0..1 } }

\* len(_generate_batch(size)): one draw per element of range(size)
GenerateBatch(size) == IF size > 0 THEN size ELSE 0

\* batch_size = config.batch_size or (trials // num_processes); <<>> is ZeroDivisionError
ParallelBatchSize(c) ==
    IF c.batch_size # <<>> /\ c.batch_size # <<0>> THEN c.batch_size
    ELSE IF c.num_processes = 0 THEN <<>>
    ELSE <<PyFloorDiv(c.trials, c.num_processes)>>

\* variant: the number of batches is rounded up
BatchCountCeil(tr, b) ==
    LET q == PyFloorDiv(tr + b - 1, b) IN IF q > 0 THEN q ELSE 0

\* len(range(trials // batch_size))
BatchCount(tr, b) == LET q == PyFloorDiv(tr, b) IN IF q > 0 THEN q ELSE 0

RECURSIVE Flatten(_)
\* len([num for batch in results for num in batch])
Flatten(bs) == IF bs = <<>> THEN 0 ELSE bs[1].len + Flatten(Tail(bs))

\* RandomSimulation.__init__: with a seed, reseeds the interpreter's `random`
\* generator and the process-wide numpy generator
RSConstruct ==
    /\ rs.phase = "none"
    /\ \E c \in SmallConfigs \cup LargeConfigs :
         /\ rs' = [rs EXCEPT !.trials = c.trials, !.seed = c.seed,
                             !.parallel = c.parallel,
                             !.num_processes = c.num_processes,
                             !.batch_size = c.batch_size, !.phase = "ready",
                             !.py_seed = IF c.seed # <<>> THEN c.seed ELSE @]
         /\ np_seed' = IF c.seed # <<>> THEN c.seed ELSE np_seed
    /\ UNCHANGED <<mcrest, tw>>

\* _parallel_simulation up to the creation of the pool and the map() call
Dispatch(r, via) ==
    LET b == ParallelBatchSize(r)
    IN  IF b = <<>> \/ b = <<0>>
        THEN [r EXCEPT !.phase = "raised", !.via = via, !.err = "ZeroDivisionError"]
        ELSE IF r.num_processes <= 0
        THEN [r EXCEPT !.phase = "raised", !.via = via, !.err = "ValueError"]
        ELSE [r EXCEPT !.phase = "map", !.via = via,
                       !.batches = [i \in 1..BatchCount(r.trials, b[1]) |->
                                      [size |-> b[1], done |-> FALSE, len |-> 0]]]

\* np.min / np.max of an empty array raise ValueError
Statistics(r, n) ==
    IF n = 0 THEN [r EXCEPT !.phase = "raised", !.err = "ValueError", !.count = n]
    ELSE [r EXCEPT !.phase = "returned", !.count = n]

\* RandomSimulation.run
RSRun ==
    /\ rs.phase = "ready"
    /\ rs' = IF rs.parallel /\ rs.trials >= ParallelThreshold
             THEN Dispatch(rs, "run")
             ELSE Statistics([rs EXCEPT !.via = "run"], GenerateBatch(rs.trials))
    /\ UNCHANGED <<mcvars, tw>>

\* RandomSimulation._parallel_simulation called on its own
RSParallel ==
    /\ rs.phase = "ready"
    /\ rs.trials <= MaxTrials
    /\ rs' = Dispatch(rs, "direct")
    /\ UNCHANGED <<mcvars, tw>>

\* a pool process returns one batch
RSBatchDone(i) ==
    /\ rs.phase = "map"
    /\ ~rs.batches[i].done
    /\ rs' = [rs EXCEPT !.batches[i] = [size |-> @.size, done |-> TRUE,
                                        len |-> GenerateBatch(@.size)]]
    /\ UNCHANGED <<mcvars, tw>>

\* list(executor.map(...)) is complete; the batches are flattened and returned
RSCollect ==
    /\ rs.phase = "map"
    /\ \A i \in 1..Len(rs.batches) : rs.batches[i].done
    /\ LET n == Flatten(rs.batches)
           r == [rs EXCEPT !.pret = TRUE]
       IN  rs' = IF rs.via = "run" THEN Statistics(r, n)
                 ELSE [r EXCEPT !.phase = "returned", !.count = n]
    /\ UNCHANGED <<mcvars, tw>>

\* RandomSimulation.visualize_results on the results run() returned: the Q-Q
\* plot draws len(raw_data) normal variates from the process-wide numpy generator
RSVisualize ==
    /\ rs.phase = "returned"
    /\ rs.via = "run"
    /\ rs' = [rs EXCEPT !.phase = "shown", !.np_draws = @ + rs.count]
    /\ UNCHANGED <<mcvars, tw>>

InitRandom ==
    /\ simKind = "PiEstimation"
    /\ cfg = Base
    /\ np_seed = <<>>
    /\ pc = "new"
    /\ points = 0
    /\ results = <<>>
    /\ convergence_history = <<>>
    /\ prev_estimate = Inf
    /\ trial_calls = 0
    /\ stop = "none"
    /\ tasks = <<>>
    /\ writers = [b \in {0} |-> {}]
    /\ entry = <<>>
    /\ last = NoCall
    /\ calls = 0
    /\ rs = NoRandomRun
    /\ tw = NoTwoTrials

NextRandom ==
    \/ RSConstruct
    \/ RSRun
    \/ RSParallel
    \/ \E i \in 1..(MaxTrials + 1) : i <= Len(rs.batches) /\ RSBatchDone(i)
    \/ RSCollect
    \/ RSVisualize

SpecRandom == InitRandom /\ [][NextRandom]_vars

----------------------------------------------------------------------------
(* Properties of run_sequential *)

\* the last finished call was run_sequential on a fresh analyzer and returned
FreshSequentialReport ==
    /\ pc = "idle"
    /\ last.call = "run_sequential"
    /\ last.outcome = "report"
    /\ last.fresh

RunningMean(j) == Mean(SubSeq(results, 1, j))

\* the threshold test of iteration j, recomputed from the result buffer
Hit(j) ==
    /\ j >= 2
    /\ FLt(AbsDiff(RunningMean(j), RunningMean(j - 1)), cfg.convergence_threshold)

\* C1: on a fresh analyzer run_sequential invokes run_trial exactly k times, k
\* the smallest iteration index >= 2 whose running mean differs from the previous
\* one by less than the threshold, or max_iterations when there is none; it never
\* makes more than max_iterations invocations and never stops on iteration 1
\* because of the threshold (max_iterations >= 0).
C1_SequentialIterationCount ==
    cfg.max_iterations >= 0 =>
        /\ (pc = "seq" => trial_calls <= cfg.max_iterations)
        /\ (pc = "seq" /\ calls = 0 /\ trial_calls <= 1 => stop = "none")
        /\ (FreshSequentialReport =>
              LET k == last.trials
              IN  /\ k = Len(results)
                  /\ k <= cfg.max_iterations
                  /\ (cfg.max_iterations >= 1 => k >= 1)
                  /\ \A j \in 2..(k - 1) : ~Hit(j)
                  /\ (Hit(k) \/ k = cfg.max_iterations))

C1_Witness ==
    /\ FreshSequentialReport
    /\ ValidConfig(cfg)
    /\ cfg.max_iterations = MaxIter
    /\ last.trials = 2
    /\ last.stop = "break"

\* C2: the report of a fresh run_sequential tells the termination states apart:
\* num_iterations < max_iterations iff the loop stopped on the threshold, and
\* num_iterations = max_iterations iff it was exhausted without meeting it.
C2_ReportTellsTerminationApart ==
    (FreshSequentialReport /\ ValidConfig(cfg)) =>
        /\ (last.report.num_iterations < cfg.max_iterations <=> last.stop = "break")
        /\ (last.report.num_iterations = cfg.max_iterations <=> last.stop = "exhausted")

\* C8: with an infinite threshold a fresh run_sequential stops after exactly two
\* iterations (iteration 1 cannot stop, iteration 2 does), whatever
\* max_iterations >= 2 allows, in particular max_iterations = LongRun.
C8_InfiniteThresholdStopsAtTwo ==
    (cfg.convergence_threshold = Inf /\ cfg.max_iterations >= 2) =>
        /\ (pc = "seq" /\ calls = 0 =>
              /\ trial_calls <= 2
              /\ (trial_calls = 1 => stop = "none")
              /\ (trial_calls = 2 => stop = "break"))
        /\ (FreshSequentialReport =>
              /\ last.trials = 2
              /\ last.report.num_iterations = 2
              /\ Len(convergence_history) = 2
              /\ last.stop = "break")

C8_Witness ==
    /\ FreshSequentialReport
    /\ cfg.convergence_threshold = Inf
    /\ cfg.max_iterations = LongRun
    /\ last.report.num_iterations = 2
    /\ Len(convergence_history) = 2

\* C10: whatever calls came before, a report returned by run_sequential has
\* num_iterations equal to the run_trial invocations of that call (hence at most
\* max_iterations), and the convergence history is as long as the result buffer
\* with its k-th entry the mean of the first k buffer entries.
C10_ReportCountsOwnIterations ==
    (pc = "idle" /\ last.call = "run_sequential" /\ last.outcome = "report"
     /\ ValidConfig(cfg)) =>
        /\ last.report.num_iterations = last.trials
        /\ last.report.num_iterations <= cfg.max_iterations
        /\ Len(convergence_history) = Len(results)
        /\ \A k \in 1..Len(convergence_history) :
             k <= Len(results) => convergence_history[k] = RunningMean(k)

----------------------------------------------------------------------------
(* Properties of run_parallel *)

ParallelFinished == pc = "idle" /\ last.call = "run_parallel" /\ tasks # <<>>

AllSucceeded == \A i \in 1..Len(tasks) : tasks[i].st = "done" /\ tasks[i].out.ok

\* C3: for num_processes >= 1, when all workers succeed, run_parallel dispatches
\* exactly num_processes run_trial invocations, leaves the result buffer alone
\* until every worker is done, and then holds exactly num_processes entries, one
\* per worker, reported as num_iterations.
C3_ParallelOneEntryPerWorker ==
    cfg.num_processes >= 1 =>
        /\ (pc = "par" => /\ results = entry
                          /\ Len(tasks) = cfg.num_processes
                          /\ trial_calls <= cfg.num_processes)
        /\ (ParallelFinished /\ AllSucceeded =>
              /\ last.outcome = "report"
              /\ last.trials = cfg.num_processes
              /\ Len(results) = cfg.num_processes
              /\ \A i \in 1..Len(results) : results[i] = tasks[i].out.est
              /\ last.report.num_iterations = cfg.num_processes)

C3_Witness ==
    /\ ParallelFinished
    /\ AllSucceeded
    /\ cfg.num_processes = MaxProcs
    /\ Len(results) = MaxProcs
    /\ last.report.num_iterations = MaxProcs

\* C4: if any worker's run_trial fails, run_parallel raises that failure: no
\* report is returned and the result buffer keeps the value it had before the
\* call, whatever the other workers returned.
C4_WorkerFailureFailsBatch ==
    /\ (pc = "par" => results = entry)
    /\ (ParallelFinished /\ (\E i \in 1..Len(tasks) : ~tasks[i].out.ok) =>
          /\ last.outcome = "raised"
          /\ last.report = NoReport
          /\ \E i \in 1..Len(tasks) : ~tasks[i].out.ok /\ last.err = tasks[i].out.err
          /\ last.kept
          /\ results = entry)

C4_Witness ==
    /\ ParallelFinished
    /\ last.outcome = "raised"
    /\ \E i, j \in 1..Len(tasks) : tasks[i].out.ok /\ ~tasks[j].out.ok
    /\ results # <<>>
    /\ results = entry

\* C7: during run_parallel no points buffer is written by two different workers
\* and the workers never write the caller's trial object, also with store_points.
C7_NoSharedPointsBuffer ==
    /\ writers[0] = {}
    /\ \A b \in DOMAIN writers : Cardinality(writers[b]) <= 1

C7_Witness ==
    /\ pc = "par"
    /\ cfg.store_points
    /\ \E b1, b2 \in DOMAIN writers :
         /\ b1 # b2
         /\ writers[b1] # {} /\ writers[b2] # {}
         /\ writers[b1] # writers[b2]

----------------------------------------------------------------------------
(* Configuration errors *)

\* C5: an invalid configuration is rejected before any sampling: no run_trial
\* invocation is made and no report is produced by run_sequential or run_parallel.
C5_InvalidConfigRejected ==
    ~ValidConfig(cfg) =>
        /\ trial_calls = 0
        /\ last.outcome # "report"

----------------------------------------------------------------------------
(* RandomSimulation._parallel_simulation *)

\* the batch size b the call works with
EffectiveBatch == ParallelBatchSize(rs)[1]

\* C9: _parallel_simulation returns exactly b * (trials // b) samples, with
\* b = batch_size if set, else trials // num_processes (b >= 1): never more than
\* trials, all of them exactly when b divides trials, else trials mod b are dropped.
C9_ParallelSampleCount ==
    (rs.pret /\ ParallelBatchSize(rs) # <<>> /\ EffectiveBatch >= 1) =>
        /\ rs.count = EffectiveBatch * (rs.trials \div EffectiveBatch)
        /\ rs.count <= rs.trials
        /\ (rs.count = rs.trials <=> rs.trials % EffectiveBatch = 0)
        /\ rs.trials - rs.count = rs.trials % EffectiveBatch

C9_Witness ==
    /\ rs.pret
    /\ rs.via = "run"
    /\ rs.phase = "returned"
    /\ rs.batch_size = <<>>
    /\ rs.trials = ParallelThreshold
    /\ rs.count < rs.trials

----------------------------------------------------------------------------
(* Two PiEstimation instances built from one config, each with its own fresh  *)
(* analyzer, constructed and run in any single-threaded order.  Both draw     *)
(* from the process-wide numpy generator (np_seed).  The values a generator   *)
(* yields are not computed: a trial's outcome ranges over all the outcomes    *)
(* run_trial can produce.                                                     *)

TwoTrialConfigs ==
    { [Base EXCEPT !.seed = sd, !.max_iterations = mi, !.convergence_threshold = t] :
        sd \in {<<>>, <<7>>, <<42>>}, mi \in 1..MaxIter, t \in {Rat(0, 1), Rat(3, 1)} }

InitTwoTrials ==
    /\ simKind = "PiEstimation"
    /\ cfg = Base
    /\ np_seed = <<>>
    /\ pc = "new"
    /\ points = 0
    /\ results = <<>>
    /\ convergence_history = <<>>
    /\ prev_estimate = Inf
    /\ trial_calls = 0
    /\ stop = "none"
    /\ tasks = <<>>
    /\ writers = [b \in {0} |-> {}]
    /\ entry = <<>>
    /\ last = NoCall
    /\ calls = 0
    /\ rs = NoRandomRun
    /\ \E c \in TwoTrialConfigs : tw = [NoTwoTrials EXCEPT !.cfg = c]

Idle(x) == \A y \in {1, 2} : tw.inst[y].status # "running"

\* PiEstimation.__init__ followed by MonteCarloAnalyzer.__init__ for instance x
TwConstruct(x) ==
    /\ tw.inst[x].status = "none"
    /\ Idle(x)
    /\ IF tw.cfg.seed # <<>>
       THEN /\ np_seed' = tw.cfg.seed
            /\ tw' = [tw EXCEPT !.inst[x].status = "NameError"]
       ELSE /\ tw' = [tw EXCEPT !.inst[x].status = "ok"]
            /\ UNCHANGED np_seed
    /\ UNCHANGED <<mcrest, rs>>

\* run_sequential entered on instance x
TwStart(x) ==
    /\ tw.inst[x].status = "ok"
    /\ Idle(x)
    /\ tw' = [tw EXCEPT !.inst[x].status = "running", !.inst[x].prev = InitialPrev]
    /\ UNCHANGED <<mcvars, rs>>

\* one iteration of the loop on instance x
TwIter(x) ==
    /\ tw.inst[x].status = "running"
    /\ LoopContinues(tw.inst[x].n, tw.inst[x].stop, tw.cfg)
    /\ \E out \in run_trial("PiEstimation", tw.cfg) :
         LET i == tw.inst[x]
             b == LoopBody(i.results, i.history, i.prev, out.est, tw.cfg)
         IN  tw' = [tw EXCEPT !.inst[x] = [i EXCEPT !.results = b.results,
                                                    !.history = b.history,
                                                    !.prev = b.prev,
                                                    !.stop = b.stop,
                                                    !.n = i.n + 1]]
    /\ UNCHANGED <<mcvars, rs>>

\* the loop is left and the report is built
TwFinish(x) ==
    /\ tw.inst[x].status = "running"
    /\ ~LoopContinues(tw.inst[x].n, tw.inst[x].stop, tw.cfg)
    /\ tw' = [tw EXCEPT !.inst[x].status = "done",
                        !.inst[x].report = AnalyzeResults(tw.inst[x].results)]
    /\ UNCHANGED <<mcvars, rs>>

NextTwoTrials ==
    \E x \in {1, 2} : TwConstruct(x) \/ TwStart(x) \/ TwIter(x) \/ TwFinish(x)

SpecTwoTrials == InitTwoTrials /\ [][NextTwoTrials]_vars

\* C6: with a seed set, two trial instances built from the same seed and config,
\* each run through run_sequential on its own fresh analyzer in one thread, are
\* constructed and run without error and end with identical result buffers,
\* convergence histories and reports, whatever the order of constructions and runs.
C6_SeededRunsReproducible ==
    tw.cfg.seed # <<>> =>
        /\ \A x \in {1, 2} : tw.inst[x].status # "NameError"
        /\ ((\A x \in {1, 2} : tw.inst[x].status = "done") =>
              /\ tw.inst[1].results = tw.inst[2].results
              /\ tw.inst[1].history = tw.inst[2].history
              /\ tw.inst[1].report = tw.inst[2].report)

====
